---- MODULE Spec2Model ----
(***************************************************************************)
(* Model of scripts/assets.py: the "icons" sub-command (Main.icons, with   *)
(* Main._icon2header and Main._iconIsSupported) and the "manifest"         *)
(* sub-command (Main.manifest).                                            *)
(*                                                                         *)
(* Strings are sequences of character codes, so that sorting, splitting    *)
(* on ".", lower-casing and the "-" -> "_" replacement are computed as     *)
(* Python computes them.                                                   *)
(***************************************************************************)
EXTENDS Integers, Sequences, FiniteSets, TLC

VARIABLES
    cmd,            \* sub-command of this invocation: "icons" or "manifest"
    run,            \* number of the current invocation (1 = first)
    pc,             \* position in the sub-command
    args_filename,  \* self.args.filename
    symbols,        \* rows of targets/f7/api_symbols.csv
    tree,           \* files below self.args.input_directory
    stack,          \* directories os.walk still has to yield, next one first
    dirpath,        \* directory being processed
    todo,           \* file names of dirpath the inner loop still has to visit
    icon_name, width, height, frame_count, frame_rate, frame_names,
    icons, paths,   \* the two lists of Main.icons
    icons_c,        \* content of <filename>.c in the output directory
    c_owner,        \* run that last opened <filename>.c for writing (0: none)
    icons_h,        \* content of <filename>.h in the output directory
    h_owner,        \* run that last opened <filename>.h for writing (0: none)
    warnings,       \* icon names logged by self.logger.warning, in order
    encoded,        \* files whose image.data_as_carray() was computed
    prev_c, prev_h, \* the artifacts the previous invocation left
    prev_ok,        \* whether the previous invocation returned 0
    local_is_dir,   \* whether self.args.local_path is an existing directory
    dir_files,      \* the files below local_path, the Manifest file aside
    manifest_file,  \* the file <local_path>/Manifest
    args_timestamp, \* self.args.timestamp
    old_manifest, new_manifest,
    diff,           \* (only_in_old, changed, only_in_new)
    m_existed,      \* whether <local_path>/Manifest existed when this run looked
    m_file0,        \* <local_path>/Manifest as this run found it
    m_trace,        \* calls made on Manifest objects by this run, in order
    m_writes        \* times this run replaced <local_path>/Manifest

ivars == <<args_filename, symbols, tree>>
wvars == <<stack, dirpath, todo>>
avars == <<icon_name, width, height, frame_count, frame_rate, frame_names>>
ovars == <<icons, paths, icons_c, c_owner, icons_h, h_owner, warnings, encoded>>
pvars == <<prev_c, prev_h>>
iconvars == <<ivars, wvars, avars, ovars, pvars>>
mivars == <<local_is_dir, dir_files>>
mvars == <<manifest_file, args_timestamp, old_manifest, new_manifest, diff, m_existed,
           m_file0, m_trace, m_writes>>
vars == <<cmd, run, pc, prev_ok, iconvars, mivars, mvars>>

-----------------------------------------------------------------------------
(* Bounds *)

MaxFiles == 3
MaxRuns == 2

-----------------------------------------------------------------------------
(* Character strings *)

RECURSIVE LexLess(_, _)
\* Python's str.__lt__: lexicographic order on code points.
LexLess(a, b) ==
    IF b = <<>> THEN FALSE
    ELSE IF a = <<>> THEN TRUE
    ELSE IF a[1] # b[1] THEN a[1] < b[1]
    ELSE LexLess(Tail(a), Tail(b))

RECURSIVE Insert(_, _)
Insert(x, s) ==
    IF s = <<>> THEN <<x>>
    ELSE IF LexLess(x, s[1]) THEN <<x>> \o s
    ELSE <<s[1]>> \o Insert(x, Tail(s))

\* A sort that leaves the host's order.
SortedMutant(s) == s

RECURSIVE Sorted(_)
\* list.sort() / sorted() on a list of strings.
Sorted(s) == IF s = <<>> THEN <<>> ELSE Insert(s[1], Sorted(Tail(s)))

\* str.lower() on ASCII.
Lower(s) == [i \in 1..Len(s) |-> IF s[i] >= 65 /\ s[i] <= 90 THEN s[i] + 32 ELSE s[i]]

\* str.replace(old, new) for one-character strings.
Replace(s, old, new) == [i \in 1..Len(s) |-> IF s[i] = old THEN new ELSE s[i]]

RECURSIVE Split(_, _)
\* str.split(sep) for a one-character separator: always at least one piece.
Split(s, sep) ==
    IF \A i \in 1..Len(s) : s[i] # sep THEN <<s>>
    ELSE LET k == CHOOSE i \in 1..Len(s) : s[i] = sep /\ \A j \in 1..(i - 1) : s[j] # sep
         IN <<SubSeq(s, 1, k - 1)>> \o Split(SubSeq(s, k + 1, Len(s)), sep)

RECURSIVE Join(_, _)
\* sep.join(pieces)
Join(pieces, sep) ==
    IF pieces = <<>> THEN <<>>
    ELSE IF Len(pieces) = 1 THEN pieces[1]
    ELSE pieces[1] \o sep \o Join(Tail(pieces), sep)

\* str.rsplit(".", 1)[0]
RSplitDotFirst(s) ==
    IF \A i \in 1..Len(s) : s[i] # 46 THEN s
    ELSE LET k == CHOOSE i \in 1..Len(s) : s[i] = 46 /\ \A j \in (i + 1)..Len(s) : s[j] # 46
         IN SubSeq(s, 1, k - 1)

RECURSIVE IntToStr(_)
\* str(n) for n >= 0
IntToStr(n) == IF n < 10 THEN <<48 + n>> ELSE IntToStr(n \div 10) \o <<48 + (n % 10)>>

-----------------------------------------------------------------------------
(* Program constants *)

ICONS_SUPPORTED_FORMATS == {<<112, 110, 103>>}      \* ["png"]
MAX_IMAGE_WIDTH == 128
MAX_IMAGE_HEIGHT == 64
FRAME_RATE == <<102, 114, 97, 109, 101, 95, 114, 97, 116, 101>>    \* "frame_rate"
ASSETS_ICONS == <<97, 115, 115, 101, 116, 115, 95, 105, 99, 111, 110, 115>>  \* "assets_icons"
NoneValue == 0 - 1                                  \* Python's None in width/height

-----------------------------------------------------------------------------
(* Inputs *)

\* Directories below the input directory, as paths relative to it.
\* "a-b" and "a_b"; <<>> is the input directory itself, named "r".
DirUniverse == {<<>>, <<(<<97, 45, 98>>)>>, <<(<<97, 95, 98>>)>>}
RootName == <<114>>

\* "f-b.png" "f_b.PNG" "s.png" "w.png" "t.png" "x.png" "n.txt"
Images ==
    { [n |-> <<102, 45, 98, 46, 112, 110, 103>>, ok |-> TRUE,  width |-> 128, height |-> 64, data |-> <<1>>],
      [n |-> <<102, 95, 98, 46, 80, 78, 71>>,    ok |-> TRUE,  width |-> 128, height |-> 64, data |-> <<2>>],
      [n |-> <<115, 46, 112, 110, 103>>,         ok |-> TRUE,  width |-> 8,   height |-> 8,  data |-> <<3>>],
      [n |-> <<119, 46, 112, 110, 103>>,         ok |-> TRUE,  width |-> 129, height |-> 8,  data |-> <<4>>],
      [n |-> <<116, 46, 112, 110, 103>>,         ok |-> TRUE,  width |-> 8,   height |-> 65, data |-> <<5>>],
      [n |-> <<120, 46, 112, 110, 103>>,         ok |-> FALSE, width |-> 0,   height |-> 0,  data |-> <<>>] }
FileUniverse == {i.n : i \in Images} \cup {<<110, 46, 116, 120, 116>>}
RateValues == {0, 2}

\* One file of the tree: directory, name, and (for frame_rate) the integer it holds.
Entries ==
    [d : DirUniverse, n : FileUniverse, v : {0}] \cup [d : DirUniverse, n : {FRAME_RATE}, v : RateValues]

RECURSIVE KSubsets(_, _)
KSubsets(S, k) ==
    IF k = 0 THEN {{}}
    ELSE LET prev == KSubsets(S, k - 1) IN prev \cup {p \cup {x} : p \in prev, x \in S}

Trees ==
    {t \in KSubsets(Entries, MaxFiles) :
        \A e1, e2 \in t : (e1.d = e2.d /\ e1.n = e2.n) => e1 = e2}

\* Rows of api_symbols.csv, one line each: entry,status,name,type,params.
\* Names hold neither "," nor a line break, so the substring test of
\* api_has_icon finds "Variable,+,<name>,Icon," exactly when such a row exists.
Row(entry, status, name, type) == [entry |-> entry, status |-> status, name |-> name, type |-> type]
I_f_b == <<73, 95, 102, 95, 98>>
A_a_b == <<65, 95, 97, 95, 98>>
I_s == <<73, 95, 115>>
SymbolTables ==
    { {},
      { Row("Variable", "+", I_f_b, "Icon"), Row("Variable", "+", A_a_b, "Icon"),
        Row("Variable", "-", I_s, "Icon"), Row("Function", "+", I_s, "Icon"),
        Row("Variable", "+", I_s, "uint8_t") } }
Filenames == {ASSETS_ICONS, <<120>>}

-----------------------------------------------------------------------------
(* The file system below input_directory *)

IsPrefix(p, q) == Len(p) <= Len(q) /\ SubSeq(q, 1, Len(p)) = p
Dirs(t) == {<<>>} \cup {p \in DirUniverse : \E e \in t : IsPrefix(p, e.d)}
DirNamesIn(t, d) == {p[Len(p)] : p \in {q \in Dirs(t) : Len(q) = Len(d) + 1 /\ IsPrefix(d, q)}}
FileNamesIn(t, d) == {e.n : e \in {x \in t : x.d = d}}
\* Any order in which the host may enumerate a set of names.
Enumerations(S) ==
    {s \in [1..Cardinality(S) -> S] : \A i, j \in 1..Cardinality(S) : s[i] = s[j] => i = j}
Contains(s, x) == \E i \in 1..Len(s) : s[i] = x

\* int(open(fullfilename).read().strip())
ReadFrameRate(t, d) == (CHOOSE e \in t : e.d = d /\ e.n = FRAME_RATE).v

\* flipper.assets.icon.file2image: the decoded image, or a decode failure.
File2Image(d, n) == CHOOSE i \in Images : i.n = n

-----------------------------------------------------------------------------
(* Main._iconIsSupported, Main._icon2header and the names Main.icons derives *)

IconIsSupported(filename) ==
    LET pieces == Split(Lower(filename), 46)
        extension == pieces[Len(pieces)]
    IN extension \in ICONS_SUPPORTED_FORMATS

\* image.data_as_carray(): the frame data as a C array literal.
DataAsCArray(image) == image.data

\* A size check that forgets the height.
TooBigMutant(image) == image.width > MAX_IMAGE_WIDTH

TooBig(image) == image.width > MAX_IMAGE_WIDTH \/ image.height > MAX_IMAGE_HEIGHT

\* status "ok": (width, height, data) returned; otherwise the exception raised.
\* encoded tells whether data_as_carray() was reached.
Icon2Header(d, n) ==
    LET image == File2Image(d, n) IN
    IF ~image.ok
    THEN [status |-> "decode_error", width |-> 0, height |-> 0, data |-> <<>>, encoded |-> FALSE]
    ELSE IF TooBig(image)
    THEN [status |-> "too_big", width |-> image.width, height |-> image.height,
          data |-> <<>>, encoded |-> FALSE]
    ELSE [status |-> "ok", width |-> image.width, height |-> image.height,
          data |-> DataAsCArray(image), encoded |-> TRUE]

is_main_assets == args_filename = ASSETS_ICONS

\* f"Variable,+,{name},Icon," in symbols
ApiHasIcon(name) == Row("Variable", "+", name, "Icon") \in symbols

\* A duplicate check that forgets the bundle.
SkipDuplicateMutant(name) == ApiHasIcon(name)

SkipDuplicate(name) == ~is_main_assets /\ ApiHasIcon(name)

\* os.path.split(dirpath)[1]
Basename(d) == IF d = <<>> THEN RootName ELSE d[Len(d)]

\* "A_" + os.path.split(dirpath)[1].replace("-", "_")
AnimIconName(d) == <<65, 95>> \o Replace(Basename(d), 45, 95)

\* "I_" + "_".join(filename.split(".")[:-1]).replace("-", "_")
StaticIconName(filename) ==
    LET pieces == Split(filename, 46) IN
    <<73, 95>> \o Replace(Join(SubSeq(pieces, 1, Len(pieces) - 1), <<95>>), 45, 95)

\* f"_{icon_name}_{frame_count}"
FrameName(name, k) == <<95>> \o name \o <<95>> \o IntToStr(k)

\* dirpath.removeprefix(input_directory)[1:].replace("\\", "/")
AnimPath(d) == Replace(Join(d, <<47>>), 92, 47)

\* fullfilename.removeprefix(input_directory)[1:].replace("\\", "/").rsplit(".", 1)[0]
StaticPath(d, filename) == RSplitDotFirst(Replace(Join(d \o <<filename>>, <<47>>), 92, 47))

\* An assertion on the finished animation that forgets the frame rate.
AnimationValidMutant(rate, count) == count > 0

\* assert frame_rate > 0; assert frame_count > 0
AnimationValid(rate, count) == rate > 0 /\ count > 0

-----------------------------------------------------------------------------
(* Text written to the artifacts, one record per write() or template *)

Frag(t, name, names, nums) == [t |-> t, name |-> name, names |-> names, nums |-> nums]
C_HEADER(assets_filename) == Frag("c_header", assets_filename, <<>>, <<>>)
C_FRAME(name, data) == Frag("c_frame", name, <<>>, data)
C_DATA(name, framenames) == Frag("c_data", <<95>> \o name, framenames, <<>>)
NEWLINE == Frag("newline", <<>>, <<>>, <<>>)
C_ICONS(icon) == Frag("c_icon", icon[1], <<>>, <<icon[2], icon[3], icon[5], icon[4]>>)
PATHS_OPEN == Frag("icon_paths_open", <<>>, <<>>, <<>>)
PATH_ENTRY(p) == Frag("icon_path", p[1], <<p[2]>>, <<>>)
PATHS_CLOSE == Frag("icon_paths_close", <<>>, <<>>, <<>>)
H_HEADER == Frag("h_header", <<>>, <<>>, <<>>)
H_ICON_NAME(name) == Frag("h_extern", name, <<>>, <<>>)
H_ICONPATH_DECL == Frag("h_iconpath_decl", <<>>, <<>>, <<>>)
H_INCLUDE_MAIN == Frag("h_include_assets_icons", ASSETS_ICONS, <<>>, <<>>)

\* A static icon whose descriptor is written at once, during the scan.
StaticIconSourceMutant(name, frame_name, data, icon) ==
    <<C_FRAME(frame_name, data), C_DATA(name, <<frame_name>>), NEWLINE, C_ICONS(icon)>>

\* Lines 213-222: what the scan writes for one static icon.
StaticIconSource(name, frame_name, data, icon) ==
    <<C_FRAME(frame_name, data), C_DATA(name, <<frame_name>>), NEWLINE>>

Reverse(s) == [i \in 1..Len(s) |-> s[Len(s) + 1 - i]]

\* An emitter that walks the list backwards.
EmitOrderMutant(list) == Reverse(list)

\* "for ... in icons:" / "for name, path in paths:": the list as it stands.
EmitOrder(list) == list

\* Lines 228-252: descriptors, then the path registry of the main bundle.
FinalizeSource(ics, pts, main) ==
    [i \in 1..Len(ics) |-> C_ICONS(EmitOrder(ics)[i])]
    \o (IF main
        THEN <<PATHS_OPEN>> \o [i \in 1..Len(pts) |-> PATH_ENTRY(EmitOrder(pts)[i])] \o <<PATHS_CLOSE>>
        ELSE <<>>)

\* Lines 262-278: the public header.
PublicHeader(ics, main) ==
    <<H_HEADER>> \o [i \in 1..Len(ics) |-> H_ICON_NAME(EmitOrder(ics)[i][1])]
    \o (IF main THEN <<H_ICONPATH_DECL>> ELSE <<H_INCLUDE_MAIN>>)

-----------------------------------------------------------------------------
(* flipper.assets.manifest.Manifest, from its specification *)

Paths == {"a.png", "b.png"}
Hashes == {"h1", "h2"}
Timestamps == {0, 7}

\* Sets of records, one per path at most.
RecordSets ==
    {rs \in SUBSET [path : Paths, hash : Hashes] :
        \A r1, r2 \in rs : r1.path = r2.path => r1 = r2}

\* Manifest(timestamp)
Manifest(timestamp) == [timestamp |-> timestamp, records |-> {}]
EmptyManifest == Manifest(0)

\* <local_path>/Manifest: absent, malformed, or a saved manifest.
MissingFile == [exists |-> FALSE, wellformed |-> FALSE, content |-> EmptyManifest]
ManifestFiles ==
    {MissingFile, [exists |-> TRUE, wellformed |-> FALSE, content |-> EmptyManifest]}
    \cup {[exists |-> TRUE, wellformed |-> TRUE, content |-> [timestamp |-> t, records |-> rs]] :
            t \in Timestamps, rs \in RecordSets}

\* Manifest.create(directory_path): one record per file, the Manifest file aside.
Create(m, files) == [m EXCEPT !.records = files]

\* Manifest.compare(old, new): records are told apart by path and hash alone.
Compare(old, new) ==
    LET oldpaths == {r.path : r \in old.records}
        newpaths == {r.path : r \in new.records}
    IN [only_in_old |-> oldpaths \ newpaths,
        changed |-> {q \in oldpaths \cap newpaths :
                        \E r1 \in old.records, r2 \in new.records :
                            r1.path = q /\ r2.path = q /\ r1.hash # r2.hash},
        only_in_new |-> newpaths \ oldpaths]
NoDiff == [only_in_old |-> {}, changed |-> {}, only_in_new |-> {}]

-----------------------------------------------------------------------------
(* State *)

NoIcons ==
    /\ stack = <<>> /\ dirpath = <<>> /\ todo = <<>>
    /\ icon_name = <<>> /\ width = NoneValue /\ height = NoneValue
    /\ frame_count = 0 /\ frame_rate = 0 /\ frame_names = <<>>
    /\ icons = <<>> /\ paths = <<>>
    /\ icons_c = <<>> /\ c_owner = 0 /\ icons_h = <<>> /\ h_owner = 0
    /\ warnings = <<>> /\ encoded = {}
    /\ prev_c = <<>> /\ prev_h = <<>>

NoManifest ==
    /\ old_manifest = EmptyManifest /\ new_manifest = EmptyManifest
    /\ diff = NoDiff
    /\ m_existed = FALSE /\ m_trace = <<>> /\ m_writes = 0

InitIcons ==
    /\ cmd = "icons"
    /\ args_filename \in Filenames
    /\ symbols \in SymbolTables
    /\ tree \in Trees
    /\ local_is_dir = FALSE /\ dir_files = {} /\ manifest_file = MissingFile
    /\ m_file0 = MissingFile /\ args_timestamp = 0

InitManifest ==
    /\ cmd = "manifest"
    /\ args_filename = ASSETS_ICONS /\ symbols = {} /\ tree = {}
    /\ local_is_dir \in BOOLEAN
    /\ dir_files \in (IF local_is_dir THEN RecordSets ELSE {{}})
    /\ manifest_file \in (IF local_is_dir THEN ManifestFiles ELSE {MissingFile})
    /\ m_file0 = manifest_file
    /\ args_timestamp \in Timestamps

Init ==
    /\ run = 1
    /\ pc = "start"
    /\ prev_ok = FALSE
    /\ NoIcons
    /\ NoManifest
    /\ (InitIcons \/ InitManifest)

\* Lines 130-145: open(<filename>.c, "w"), write the header, start the walk.
IconsOpen ==
    /\ cmd = "icons" /\ pc = "start"
    /\ icons_c' = <<C_HEADER(args_filename)>>
    /\ c_owner' = run
    /\ icons' = <<>> /\ paths' = <<>>
    /\ stack' = <<(<<>>)>>
    /\ pc' = "walk"
    /\ UNCHANGED <<cmd, run, ivars, dirpath, todo, avars, icons_h, h_owner, warnings, encoded, pvars, prev_ok, mivars, mvars>>

\* Lines 147-164 and 197-199: os.walk yields the next directory; it is classified.
WalkDirectory ==
    /\ cmd = "icons" /\ pc = "walk" /\ stack # <<>>
    /\ LET d == Head(stack) IN
       \E dn \in Enumerations(DirNamesIn(tree, d)), fn \in Enumerations(FileNamesIn(tree, d)) :
          LET dirnames == Sorted(dn)
              filenames == Sorted(fn)
              name == AnimIconName(d)
          IN /\ stack' = [i \in 1..Len(dirnames) |-> d \o <<dirnames[i]>>] \o Tail(stack)
             /\ dirpath' = d
             /\ IF filenames = <<>>
                THEN /\ pc' = "walk"
                     /\ UNCHANGED <<todo, avars, warnings>>
                ELSE IF Contains(filenames, FRAME_RATE)
                THEN IF SkipDuplicate(name)
                     THEN /\ warnings' = Append(warnings, name)
                          /\ pc' = "walk"
                          /\ UNCHANGED <<todo, avars>>
                     ELSE /\ icon_name' = name
                          /\ width' = NoneValue /\ height' = NoneValue
                          /\ frame_count' = 0 /\ frame_rate' = 0 /\ frame_names' = <<>>
                          /\ todo' = Sorted(filenames)
                          /\ pc' = "anim"
                          /\ UNCHANGED warnings
                ELSE /\ todo' = filenames
                     /\ pc' = "static"
                     /\ UNCHANGED <<avars, warnings>>
    /\ UNCHANGED <<cmd, run, ivars, icons, paths, icons_c, c_owner, icons_h, h_owner, encoded, pvars, prev_ok, mivars, mvars>>

\* Lines 165-185: one iteration of the loop over an animation's files.
AnimationFile ==
    /\ cmd = "icons" /\ pc = "anim" /\ todo # <<>>
    /\ LET filename == Head(todo)
           r == Icon2Header(dirpath, filename)
           w == IF width = NoneValue THEN r.width ELSE width
           h == IF height = NoneValue THEN r.height ELSE height
           frame_name == FrameName(icon_name, frame_count)
       IN IF filename = FRAME_RATE
          THEN /\ frame_rate' = ReadFrameRate(tree, dirpath)
               /\ todo' = Tail(todo)
               /\ UNCHANGED <<pc, width, height, frame_count, frame_names, icons_c, encoded>>
          ELSE IF ~IconIsSupported(filename)
          THEN /\ todo' = Tail(todo)
               /\ UNCHANGED <<pc, width, height, frame_count, frame_rate, frame_names, icons_c, encoded>>
          ELSE IF r.status # "ok"
          THEN /\ pc' = "failed"
               /\ UNCHANGED <<todo, width, height, frame_count, frame_rate, frame_names, icons_c, encoded>>
          ELSE /\ encoded' = encoded \cup {<<dirpath, filename>>}
               /\ width' = w /\ height' = h
               /\ IF w = r.width /\ h = r.height
                  THEN /\ frame_names' = Append(frame_names, frame_name)
                       /\ icons_c' = Append(icons_c, C_FRAME(frame_name, r.data))
                       /\ frame_count' = frame_count + 1
                       /\ todo' = Tail(todo)
                       /\ UNCHANGED <<pc, frame_rate>>
                  ELSE /\ pc' = "failed"
                       /\ UNCHANGED <<todo, frame_count, frame_rate, frame_names, icons_c>>
    /\ UNCHANGED <<cmd, run, ivars, stack, dirpath, icon_name, icons, paths, c_owner,
                   icons_h, h_owner, warnings, pvars, prev_ok, mivars, mvars>>

\* Lines 186-196: the animation's assertions, its frame-pointer array, its record.
AnimationEnd ==
    /\ cmd = "icons" /\ pc = "anim" /\ todo = <<>>
    /\ IF AnimationValid(frame_rate, frame_count)
       THEN /\ icons_c' = icons_c \o <<C_DATA(icon_name, frame_names), NEWLINE>>
            /\ icons' = Append(icons, <<icon_name, width, height, frame_rate, frame_count>>)
            /\ paths' = Append(paths, <<icon_name, AnimPath(dirpath)>>)
            /\ pc' = "walk"
       ELSE /\ pc' = "failed"
            /\ UNCHANGED <<icons_c, icons, paths>>
    /\ UNCHANGED <<cmd, run, ivars, wvars, avars, c_owner, icons_h, h_owner, warnings,
                   encoded, pvars, prev_ok, mivars, mvars>>

\* Lines 199-225: one iteration of the loop over a directory of static icons.
StaticFile ==
    /\ cmd = "icons" /\ pc = "static" /\ todo # <<>>
    /\ LET filename == Head(todo)
           name == StaticIconName(filename)
           r == Icon2Header(dirpath, filename)
           frame_name == FrameName(name, 0)
           more == IF Tail(todo) = <<>> THEN "walk" ELSE "static"
       IN IF ~IconIsSupported(filename)
          THEN /\ pc' = more /\ todo' = Tail(todo)
               /\ UNCHANGED <<icons, paths, icons_c, warnings, encoded>>
          ELSE IF SkipDuplicate(name)
          THEN /\ warnings' = Append(warnings, name)
               /\ pc' = more /\ todo' = Tail(todo)
               /\ UNCHANGED <<icons, paths, icons_c, encoded>>
          ELSE IF r.status # "ok"
          THEN /\ pc' = "failed"
               /\ UNCHANGED <<todo, icons, paths, icons_c, warnings, encoded>>
          ELSE /\ encoded' = encoded \cup {<<dirpath, filename>>}
               /\ icons_c' = icons_c \o StaticIconSource(name, frame_name, r.data,
                                                          <<name, r.width, r.height, 0, 1>>)
               /\ icons' = Append(icons, <<name, r.width, r.height, 0, 1>>)
               /\ paths' = Append(paths, <<name, StaticPath(dirpath, filename)>>)
               /\ pc' = more /\ todo' = Tail(todo)
               /\ UNCHANGED warnings
    /\ UNCHANGED <<cmd, run, ivars, stack, dirpath, avars, c_owner, icons_h, h_owner, pvars, prev_ok, mivars, mvars>>

\* Lines 226-253: the walk is over; descriptors and path registry; close.
FinalizeSourceFile ==
    /\ cmd = "icons" /\ pc = "walk" /\ stack = <<>>
    /\ icons_c' = icons_c \o FinalizeSource(icons, paths, is_main_assets)
    /\ pc' = "header"
    /\ UNCHANGED <<cmd, run, ivars, wvars, avars, icons, paths, c_owner, icons_h, h_owner,
                   warnings, encoded, pvars, prev_ok, mivars, mvars>>

\* Lines 255-281: open(<filename>.h, "w"), write it, close, return 0.
CreatePublicHeader ==
    /\ cmd = "icons" /\ pc = "header"
    /\ icons_h' = PublicHeader(icons, is_main_assets)
    /\ h_owner' = run
    /\ pc' = "done"
    /\ UNCHANGED <<cmd, run, ivars, wvars, avars, icons, paths, icons_c, c_owner,
                   warnings, encoded, pvars, prev_ok, mivars, mvars>>

\* The command is invoked again on the same input and output directories.
IconsAgain ==
    /\ cmd = "icons" /\ pc \in {"done", "failed"} /\ run < MaxRuns
    /\ run' = run + 1
    /\ prev_c' = icons_c /\ prev_h' = icons_h /\ prev_ok' = (pc = "done")
    /\ pc' = "start"
    /\ warnings' = <<>> /\ encoded' = {}
    /\ UNCHANGED <<cmd, ivars, wvars, avars, icons, paths, icons_c, c_owner, icons_h, h_owner,
                   mivars, mvars>>

-----------------------------------------------------------------------------
(* Main.manifest *)

\* A directory test that always succeeds.
OsPathIsDirMutant == TRUE

\* os.path.isdir(directory_path)
OsPathIsDir == local_is_dir

\* An existence test that always succeeds.
OsPathExistsMutant(file) == TRUE

\* os.path.exists(manifest_file)
OsPathExists(file) == file.exists

\* A test that takes every comparison for a change.
DiffNonEmptyMutant(d) == TRUE

\* any((only_in_old, changed, only_in_new))
DiffNonEmpty(d) == d.only_in_old # {} \/ d.changed # {} \/ d.only_in_new # {}

\* Lines 286-289: the directory check; exit(255) when it fails.
ManifestCheckDirectory ==
    /\ cmd = "manifest" /\ pc = "start"
    /\ pc' = IF OsPathIsDir THEN "load" ELSE "exit255"
    /\ UNCHANGED <<cmd, run, prev_ok, iconvars, mivars, mvars>>

\* Lines 291-295: old_manifest = Manifest(); load it when the file exists.
\* A malformed file makes load raise.
ManifestLoad ==
    /\ cmd = "manifest" /\ pc = "load"
    /\ m_existed' = manifest_file.exists
    /\ IF OsPathExists(manifest_file)
       THEN /\ m_trace' = Append(m_trace, "load")
            /\ IF manifest_file.exists /\ manifest_file.wellformed
               THEN /\ old_manifest' = manifest_file.content
                    /\ pc' = "create"
               ELSE /\ old_manifest' = Manifest(0)
                    /\ pc' = "failed"
       ELSE /\ old_manifest' = Manifest(0)
            /\ pc' = "create"
            /\ UNCHANGED m_trace
    /\ UNCHANGED <<cmd, run, prev_ok, iconvars, mivars, manifest_file, args_timestamp,
                   new_manifest, diff, m_file0, m_writes>>

\* Lines 296-300: the fresh manifest of the directory.
ManifestCreate ==
    /\ cmd = "manifest" /\ pc = "create"
    /\ new_manifest' = Create(Manifest(args_timestamp), dir_files)
    /\ m_trace' = Append(m_trace, "create")
    /\ pc' = "compare"
    /\ UNCHANGED <<cmd, run, prev_ok, iconvars, mivars, manifest_file, args_timestamp,
                   old_manifest, diff, m_existed, m_file0, m_writes>>

\* Lines 302-309: the comparison.
ManifestCompare ==
    /\ cmd = "manifest" /\ pc = "compare"
    /\ diff' = Compare(old_manifest, new_manifest)
    /\ m_trace' = Append(m_trace, "compare")
    /\ pc' = "decide"
    /\ UNCHANGED <<cmd, run, prev_ok, iconvars, mivars, manifest_file, args_timestamp,
                   old_manifest, new_manifest, m_existed, m_file0, m_writes>>

\* Lines 310-320: save when something differs; return 0.
\* save either replaces the file or raises and leaves it as it was.
ManifestSaveOrNot ==
    /\ cmd = "manifest" /\ pc = "decide"
    /\ IF DiffNonEmpty(diff)
       THEN /\ m_trace' = Append(m_trace, "save")
            /\ \E saved \in BOOLEAN :
                 IF saved
                 THEN /\ manifest_file' = [exists |-> TRUE, wellformed |-> TRUE,
                                           content |-> new_manifest]
                      /\ m_writes' = m_writes + 1
                      /\ pc' = "done"
                 ELSE /\ pc' = "failed"
                      /\ UNCHANGED <<manifest_file, m_writes>>
       ELSE /\ pc' = "done"
            /\ UNCHANGED <<manifest_file, m_trace, m_writes>>
    /\ UNCHANGED <<cmd, run, prev_ok, iconvars, mivars, args_timestamp, old_manifest,
                   new_manifest, diff, m_existed, m_file0>>

\* The command is invoked again on the same directory, with any timestamp.
ManifestAgain ==
    /\ cmd = "manifest" /\ pc \in {"done", "failed", "exit255"} /\ run < MaxRuns
    /\ run' = run + 1
    /\ prev_ok' = (pc = "done")
    /\ pc' = "start"
    /\ args_timestamp' \in Timestamps
    /\ m_file0' = manifest_file
    /\ old_manifest' = EmptyManifest /\ new_manifest' = EmptyManifest /\ diff' = NoDiff
    /\ m_existed' = FALSE /\ m_trace' = <<>> /\ m_writes' = 0
    /\ UNCHANGED <<cmd, iconvars, mivars, manifest_file>>

Next ==
    \/ IconsOpen
    \/ WalkDirectory
    \/ AnimationFile
    \/ AnimationEnd
    \/ StaticFile
    \/ FinalizeSourceFile
    \/ CreatePublicHeader
    \/ IconsAgain
    \/ ManifestCheckDirectory
    \/ ManifestLoad
    \/ ManifestCreate
    \/ ManifestCompare
    \/ ManifestSaveOrNot
    \/ ManifestAgain

Spec == Init /\ [][Next]_vars

-----------------------------------------------------------------------------
(* Vocabulary of the properties *)

IconsRun == cmd = "icons"
ManifestRun == cmd = "manifest"
Declared(name) == \E r \in symbols : r.entry = "Variable" /\ r.status = "+" /\ r.name = name /\ r.type = "Icon"
HasPngExtension(n) == Len(n) >= 3 /\ Lower(SubSeq(n, Len(n) - 2, Len(n))) = <<112, 110, 103>>
               /\ (Len(n) = 3 \/ n[Len(n) - 3] = 46)
IsAnimationDir(d) == \E e \in tree : e.d = d /\ e.n = FRAME_RATE
SkippedDir(d) == IsAnimationDir(d) /\ args_filename # ASSETS_ICONS /\ Declared(AnimIconName(d))
\* The static icon files of the tree, and the animation directories.
StaticCandidates == {e \in tree : HasPngExtension(e.n) /\ ~IsAnimationDir(e.d)}
AnimCandidates == {d \in Dirs(tree) : IsAnimationDir(d)}
FramesOf(d) == {e \in tree : e.d = d /\ HasPngExtension(e.n)}
WithinDisplay(w, h) == w <= 128 /\ h <= 64
NamesOf(frags) == [i \in 1..Len(frags) |-> frags[i].name]
IsCData(f) == f.t = "c_data"
IsCIcon(f) == f.t = "c_icon"
IsPathEntry(f) == f.t = "icon_path"
IsExtern(f) == f.t = "h_extern"
IsRegistry(f) == f.t \in {"icon_paths_open", "icon_path", "icon_paths_close"}
Mentions(f, name) ==
    \/ f.name = name
    \/ f.name = <<95>> \o name
    \/ \E k \in 0..(MaxFiles + 1) : f.name = FrameName(name, k)
InSeq(s, x) == \E i \in 1..Len(s) : s[i] = x

-----------------------------------------------------------------------------
(* Properties *)

\* C1 (as stated): a run of icons that aborts has neither created nor
\* overwritten <filename>.c or <filename>.h.
C1_NoArtifactTouchedOnAbort ==
    (IconsRun /\ pc = "failed") => (c_owner # run /\ h_owner # run)

\* C1 (amended): a run of icons that aborts has not touched <filename>.h, and
\* has opened (created or truncated) <filename>.c, which holds the header and
\* the frame and frame-pointer arrays written before the error, but no
\* descriptor and no path registry.
C1_AbortLeavesOnlyPartialSource ==
    (IconsRun /\ pc = "failed") =>
        /\ h_owner # run /\ icons_h = prev_h
        /\ c_owner = run
        /\ icons_c[1] = C_HEADER(args_filename)
        /\ \A k \in 2..Len(icons_c) : icons_c[k].t \in {"c_frame", "c_data", "newline"}

C1_Witness ==
    /\ IconsRun /\ pc = "failed" /\ run = 2
    /\ \E k \in 1..Len(icons_c) : icons_c[k].t = "c_data"
    /\ \E k \in 1..Len(prev_c) : prev_c[k].t = "c_data"

\* C3: in every completed run of icons the symbol names of the recorded icons
\* are pairwise distinct (colliding names make the run fail).
C3_SymbolNamesDistinct ==
    (IconsRun /\ pc = "done") =>
        \A i, j \in 1..Len(icons) : icons[i][1] = icons[j][1] => i = j

\* C4 (as stated): a directory of frames without a frame-rate declaration, an
\* animation with frame rate zero and an animation without frames make the
\* run fail.
C4_FramesNeedDeclaration ==
    (IconsRun /\ pc = "done") =>
        \A d \in Dirs(tree) :
            (FramesOf(d) # {} /\ ~SkippedDir(d)) =>
                /\ IsAnimationDir(d)
                /\ ReadFrameRate(tree, d) > 0

\* C4 (amended): an animation group is a directory holding a frame_rate file;
\* a compiled one with frame rate zero or without supported frames makes the run fail,
\* so every recorded A_ icon has frame_rate > 0 and frame_count > 0.  A
\* directory without a frame_rate file is no animation group and does not
\* fail on that account: each supported file in it is recorded as a static
\* icon with frame_rate 0 and frame_count 1.
C4_AnimatedIconsValid ==
    IconsRun =>
        /\ \A i \in 1..Len(icons) :
              IF icons[i][1][1] = 65
              THEN icons[i][4] > 0 /\ icons[i][5] > 0
              ELSE icons[i][4] = 0 /\ icons[i][5] = 1
        /\ pc = "done" =>
              /\ \A d \in AnimCandidates :
                    ~SkippedDir(d) =>
                        /\ ReadFrameRate(tree, d) > 0
                        /\ FramesOf(d) # {}
                        /\ InSeq(icons, <<AnimIconName(d), File2Image(d, (CHOOSE e \in FramesOf(d) : TRUE).n).width,
                                          File2Image(d, (CHOOSE e \in FramesOf(d) : TRUE).n).height,
                                          ReadFrameRate(tree, d), Cardinality(FramesOf(d))>>)
              /\ \A e \in StaticCandidates :
                    (is_main_assets \/ ~Declared(StaticIconName(e.n))) =>
                        InSeq(icons, <<StaticIconName(e.n), File2Image(e.d, e.n).width,
                                       File2Image(e.d, e.n).height, 0, 1>>)

C4_Witness ==
    /\ IconsRun /\ pc = "done"
    /\ \E i \in 1..Len(icons) : icons[i][1][1] = 65 /\ icons[i][5] = 2

\* C5: the size check precedes the encoding: no image wider than 128 or
\* higher than 64 is ever encoded or written, every recorded icon is within
\* 128 x 64, and a run that meets such an image does not complete.
C5_SizeCheckedBeforeEncoding ==
    IconsRun =>
        /\ \A i \in 1..Len(icons) : WithinDisplay(icons[i][2], icons[i][3])
        /\ \A f \in encoded : WithinDisplay(File2Image(f[1], f[2]).width, File2Image(f[1], f[2]).height)
        /\ \A k \in 1..Len(icons_c) :
              icons_c[k].t = "c_frame" =>
                  \A img \in Images : img.data = icons_c[k].nums => WithinDisplay(img.width, img.height)
        /\ pc = "done" =>
              \A e \in tree :
                  (/\ HasPngExtension(e.n)
                   /\ ~SkippedDir(e.d)
                   /\ (IsAnimationDir(e.d) \/ is_main_assets \/ ~Declared(StaticIconName(e.n))))
                  => (File2Image(e.d, e.n).ok
                      /\ WithinDisplay(File2Image(e.d, e.n).width, File2Image(e.d, e.n).height))

C5_Witness ==
    /\ IconsRun /\ pc = "failed" /\ todo # <<>>
    /\ HasPngExtension(Head(todo))
    /\ File2Image(dirpath, Head(todo)).ok
    /\ File2Image(dirpath, Head(todo)).height > 64
    /\ <<dirpath, Head(todo)>> \notin encoded
    /\ encoded # {}

\* C6: an icon is skipped exactly when the bundle is not assets_icons and its
\* name has a "Variable,+,<name>,Icon" row in the symbol table; the main
\* bundle skips nothing; a skipped icon leaves a warning and nothing in either
\* artifact, and the run goes on with the next candidate.
C6_DuplicateResolution ==
    IconsRun =>
        /\ \A i \in 1..Len(warnings) : ~is_main_assets /\ Declared(warnings[i])
        /\ is_main_assets => warnings = <<>>
        /\ \A i \in 1..Len(icons) : is_main_assets \/ ~Declared(icons[i][1])
        /\ \A i \in 1..Len(warnings) :
              /\ \A k \in 1..Len(icons_c) : c_owner = run => ~Mentions(icons_c[k], warnings[i])
              /\ \A k \in 1..Len(icons_h) : h_owner = run => ~Mentions(icons_h[k], warnings[i])
              /\ \A k \in 1..Len(icons) : icons[k][1] # warnings[i]
        /\ pc = "done" =>
              /\ \A e \in StaticCandidates :
                    InSeq(warnings, StaticIconName(e.n))
                        <=> (~is_main_assets /\ Declared(StaticIconName(e.n)))
              /\ \A d \in AnimCandidates :
                    InSeq(warnings, AnimIconName(d))
                        <=> (~is_main_assets /\ Declared(AnimIconName(d)))
              /\ Len(warnings) + Len(icons) = Cardinality(StaticCandidates) + Cardinality(AnimCandidates)

C6_Witness ==
    /\ IconsRun /\ pc = "done"
    /\ Len(warnings) = 2 /\ warnings[1] # warnings[2]
    /\ icons # <<>>
    /\ Declared(warnings[1])

\* C7: in a completed run the forward declarations of the .h, the descriptors
\* of the .c and, for the main bundle only, the path registry list the
\* recorded icons once each in the order the scan wrote their frame-pointer
\* arrays.
C7_EmissionKeepsOrder ==
    (IconsRun /\ pc = "done") =>
        LET scanned == NamesOf(SelectSeq(icons_c, IsCData))
            recorded == [i \in 1..Len(icons) |-> icons[i][1]]
        IN /\ scanned = [i \in 1..Len(recorded) |-> <<95>> \o recorded[i]]
           /\ SelectSeq(icons_c, IsCIcon) = [i \in 1..Len(icons) |-> C_ICONS(icons[i])]
           /\ NamesOf(SelectSeq(icons_h, IsExtern)) = recorded
           /\ Len(paths) = Len(icons)
           /\ \A i \in 1..Len(paths) : paths[i][1] = recorded[i]
           /\ IF is_main_assets
              THEN SelectSeq(icons_c, IsPathEntry) = [i \in 1..Len(paths) |-> PATH_ENTRY(paths[i])]
              ELSE SelectSeq(icons_c, IsRegistry) = <<>>
           /\ InSeq(icons_h, H_ICONPATH_DECL) <=> is_main_assets

C7_Witness ==
    /\ IconsRun /\ pc = "done" /\ is_main_assets
    /\ Len(icons) = 3
    /\ icons[1][1] # icons[2][1] /\ icons[2][1] # icons[3][1]

\* C8: a second compilation of the same tree, whatever the order in which the
\* host enumerates directories and files, writes the same .c and .h.
C8_Deterministic ==
    (IconsRun /\ run >= 2 /\ pc = "done" /\ prev_ok) =>
        (icons_c = prev_c /\ icons_h = prev_h)

C8_Witness ==
    /\ IconsRun /\ run = 2 /\ pc = "done" /\ prev_ok
    /\ Len(icons) = 3
    /\ Cardinality(Dirs(tree)) = 3

\* C2: the Manifest file is replaced exactly when the comparison is not
\* empty; a repeated run on the unchanged directory writes nothing, whatever
\* its timestamp.
C2_SavedIffDiffNonEmpty ==
    ManifestRun =>
        /\ m_writes > 0 =>
              (diff.only_in_old # {} \/ diff.changed # {} \/ diff.only_in_new # {})
        /\ pc = "done" =>
              /\ m_writes = 1 <=>
                    (diff.only_in_old # {} \/ diff.changed # {} \/ diff.only_in_new # {})
              /\ m_writes = 0 => manifest_file = m_file0
              /\ old_manifest.records = new_manifest.records => m_writes = 0
        /\ (pc = "done" /\ run >= 2 /\ prev_ok) => (m_writes = 0 /\ manifest_file = m_file0)

C2_Witness ==
    /\ ManifestRun /\ pc = "done" /\ run = 2 /\ prev_ok
    /\ m_writes = 0
    /\ dir_files # {}
    /\ old_manifest.timestamp # new_manifest.timestamp

\* C9: when local_path is no directory the run ends with exit status 255 at
\* once: nothing is loaded, built, compared or written.
C9_NotADirectoryExits255 ==
    ManifestRun =>
        /\ ~local_is_dir =>
              /\ pc \in {"start", "exit255"}
              /\ m_trace = <<>> /\ m_writes = 0
              /\ old_manifest = EmptyManifest /\ new_manifest = EmptyManifest
              /\ diff = NoDiff
              /\ manifest_file = m_file0
        /\ pc = "exit255" => ~local_is_dir

C9_Witness == ManifestRun /\ pc = "exit255" /\ run = 2

\* C10: past the directory check the calls are load (only when the file
\* exists, once), create, compare, save (once at most, after the comparison);
\* a missing file is compared as the empty manifest and fails nothing; a
\* failing load or save ends the run, a failing load without a save.
C10_Workflow ==
    ManifestRun =>
        LET full == IF m_existed THEN <<"load", "create", "compare", "save">>
                    ELSE <<"create", "compare", "save">>
            n == Len(m_trace)
        IN /\ n <= Len(full) /\ m_trace = SubSeq(full, 1, n)
           /\ (pc \in {"create", "compare", "decide", "done", "failed"}) => m_existed = m_file0.exists
           /\ (pc \in {"create", "compare", "decide", "done"} /\ ~m_file0.exists) =>
                 old_manifest = EmptyManifest
           /\ (pc \in {"create", "compare", "decide", "done"} /\ m_file0.exists) =>
                 (m_file0.wellformed /\ old_manifest = m_file0.content)
           /\ pc = "failed" =>
                 \/ m_trace = <<"load">> /\ ~m_file0.wellformed /\ m_writes = 0 /\ manifest_file = m_file0
                 \/ m_trace = full /\ m_writes = 0 /\ manifest_file = m_file0
           /\ pc = "done" =>
                 /\ n >= Len(full) - 1
                 /\ m_writes = (IF n = Len(full) THEN 1 ELSE 0)
           /\ m_writes <= 1

C10_Witness ==
    /\ ManifestRun /\ pc = "done" /\ run = 1
    /\ ~m_file0.exists
    /\ m_trace = <<"create", "compare", "save">>
    /\ manifest_file.exists

====
